---- MODULE Spec2Model ----
(***************************************************************************)
(* Anchor labelling, sparse-to-dense remapping and balanced anchor         *)
(* sampling of examples/faster-rcnn/objectlocalization.py                  *)
(* (class ObjectLocalization and the module's utility functions).          *)
(*                                                                         *)
(* Numbers.  Box coordinates are pixels.  gt_bb * im_scale is a rational,  *)
(* so every geometric quantity is kept as an exact fraction: the overlap   *)
(* of an anchor and a scaled ground-truth box is computed in units of      *)
(* 1/den pixel, where im_scale = num/den in lowest terms.  An array        *)
(* element is a value record [k, n, d, p]: the number n/d (k = "q") or     *)
(* ln(n/d) (k = "ln"), with p = "exact" when float32 holds it exactly,     *)
(* "f64" when only the double is kept and "f32" once it has been rounded   *)
(* to float32.  Doubles are taken as exact reals; the float32 rounding     *)
(* that _unmap applies is kept.                                            *)
(***************************************************************************)
EXTENDS Integers, Sequences, FiniteSets, TLC

(***************************************************************************)
(* Program constants                                                       *)
(***************************************************************************)
MAX_SIZE == 1000
MIN_SIZE == 600
\* NEGATIVE_OVERLAP = 0.3, POSITIVE_OVERLAP = 0.7, FG_FRACTION = 0.5
NEGATIVE_OVERLAP == <<3, 10>>
POSITIVE_OVERLAP == <<7, 10>>
FG_FRACTION == <<1, 2>>
\* FRCN_EPS = 1.0
FRCN_EPS == 1
\* a box is the tuple <<x_min, y_min, x_max, y_max>>: the numpy columns
\* BB_XMIN_IDX .. BB_YMAX_IDX
XMin(bb) == bb[1]
YMin(bb) == bb[2]
XMax(bb) == bb[3]
YMax(bb) == bb[4]

(***************************************************************************)
(* Bounds of the model                                                     *)
(***************************************************************************)
\* most ground-truth boxes of one image
MaxGt == 2
\* largest nrois passed to _sample_anchors
MaxRois == 3
\* most calls of rng.choice followed
MaxRngCalls == 4
\* side of the final conv layer (constructor argument conv_size)
ConvSize == 2
\* longest array given to _unmap, longest box list given to inside_im_bounds
MaxTotal == 3
MaxBoxes == 2
\* largest image side given to inside_im_bounds
MaxDim == 2
\* raw image sides given to calculate_scale_shape: 200k and 200k + 1, k <= MaxSideSteps
MaxSideSteps == 10
\* the largest coordinate of the boxes calculate_bb_overlap is called on
MaxCoord == 2
\* most image records given to _shuffle_roidb
MaxShuffle == 4
\* most image records (num_image_entries) of an iterated dataset
MaxEntries == 2
\* most calls of rng.choice during the epochs of an iterated dataset
MaxIterRngCalls == 6

(***************************************************************************)
(* Arithmetic                                                              *)
(***************************************************************************)
Abs(x) == IF x < 0 THEN -x ELSE x

Min2(a, b) == IF a <= b THEN a ELSE b

Max2(a, b) == IF a >= b THEN a ELSE b

RECURSIVE GCD(_, _)
GCD(a, b) == IF b = 0 THEN a ELSE GCD(b, a % b)

\* the fraction n/d (d > 0) in lowest terms, as the pair <<n, d>>
Frac(n, d) ==
    LET g == GCD(Abs(n), d)
    IN  <<n \div g, d \div g>>

\* a/b < c/d for fractions with positive denominators, by continued
\* fractions: no product of two large terms is formed
RECURSIVE FracLess(_, _)
FracLess(x, y) ==
    LET qx == x[1] \div x[2]
        qy == y[1] \div y[2]
        rx == x[1] % x[2]
        ry == y[1] % y[2]
    IN  IF qx # qy THEN qx < qy
        ELSE IF ry = 0 THEN FALSE
        ELSE IF rx = 0 THEN TRUE
        ELSE FracLess(<<y[2], ry>>, <<x[2], rx>>)

FracMax(x, y) == IF FracLess(x, y) THEN y ELSE x

\* np.round of n/d (n >= 0, d > 0): to nearest, a tie to the even integer
RoundHalfEven(n, d) ==
    LET q == n \div d
        r == n % d
    IN  IF 2 * r < d THEN q
        ELSE IF 2 * r > d THEN q + 1
        ELSE IF q % 2 = 0 THEN q ELSE q + 1

(***************************************************************************)
(* Array elements                                                          *)
(***************************************************************************)
IsPow2(d) == \E i \in 0..24 : d = 2^i

\* float32 holds n/d exactly: a dyadic fraction with a 24-bit significand
Float32Exact(n, d) == IsPow2(d) /\ Abs(n) < 2^24

\* the double n/d
Q(n, d) ==
    LET f == Frac(n, d)
    IN  [k |-> "q", n |-> f[1], d |-> f[2],
         p |-> IF Float32Exact(f[1], f[2]) THEN "exact" ELSE "f64"]

\* the double np.log(n/d), n > 0
Ln(n, d) ==
    LET f == Frac(n, d)
    IN  IF f[1] = f[2] THEN Q(0, 1)
        ELSE [k |-> "ln", n |-> f[1], d |-> f[2], p |-> "f64"]

\* astype(np.float32) of one element
ToFloat32(v) == IF v.p = "f64" THEN [v EXCEPT !.p = "f32"] ELSE v

IGNORE == Q(-1, 1)
BACKGROUND == Q(0, 1)
FOREGROUND == Q(1, 1)

(***************************************************************************)
(* calculate_scale_shape                                                   *)
(***************************************************************************)
\* calculate_scale_shape without the max-side clip
calculate_scale_shape_noclip(size) ==
    LET im_scale == Frac(MIN_SIZE, Min2(size[1], size[2]))
    IN  [im_scale |-> im_scale,
         im_shape |-> <<RoundHalfEven(size[1] * im_scale[1], im_scale[2]),
                        RoundHalfEven(size[2] * im_scale[1], im_scale[2])>>]

calculate_scale_shape(size) ==
    LET im_size_min == Min2(size[1], size[2])
        im_size_max == Max2(size[1], size[2])
        im_scale0 == Frac(MIN_SIZE, im_size_min)
        im_scale == IF RoundHalfEven(im_scale0[1] * im_size_max, im_scale0[2]) > MAX_SIZE
                    THEN Frac(MAX_SIZE, im_size_max)
                    ELSE im_scale0
    IN  [im_scale |-> im_scale,
         im_shape |-> <<RoundHalfEven(size[1] * im_scale[1], im_scale[2]),
                        RoundHalfEven(size[2] * im_scale[1], im_scale[2])>>]

(***************************************************************************)
(* numpy arrays are sequences; an index array holds 0-based indices        *)
(***************************************************************************)
At(a, i) == a[i + 1]

\* a[idx] for an index array idx
Gather(a, idx) == [j \in 1..Len(idx) |-> At(a, idx[j])]

\* np.where(mask)[0]: the 0-based positions where P holds, ascending
RECURSIVE WhereUpTo(_, _)
WhereUpTo(mask, m) ==
    IF m = 0 THEN <<>>
    ELSE IF mask[m] THEN Append(WhereUpTo(mask, m - 1), m - 1)
    ELSE WhereUpTo(mask, m - 1)

Where(mask) == WhereUpTo(mask, Len(mask))

(***************************************************************************)
(* The dense anchor grid: generate_all_anchors(conv_size, conv_size,       *)
(* SCALE), total_anchors = conv_size * conv_size * K boxes, the K base     *)
(* anchors shifted to every cell, anchor type slowest (CHW order)          *)
(***************************************************************************)
BaseAnchors == << <<0, 0, 299, 299>>, <<-50, 0, 349, 299>> >>

feat_stride == BaseAnchors[1][3] + 1

total_anchors == ConvSize * ConvSize * Len(BaseAnchors)

generate_all_anchors ==
    [i \in 1..total_anchors |->
        LET c  == (i - 1) \div (ConvSize * ConvSize)
            cy == ((i - 1) % (ConvSize * ConvSize)) \div ConvSize
            cx == (i - 1) % ConvSize
            b  == BaseAnchors[c + 1]
        IN  <<b[1] + cx * feat_stride, b[2] + cy * feat_stride,
              b[3] + cx * feat_stride, b[4] + cy * feat_stride>>]

(***************************************************************************)
(* inside_im_bounds                                                        *)
(***************************************************************************)
\* inside_im_bounds with the upper bounds inclusive
inside_im_bounds_leq(box, im_shape) ==
    Where([i \in 1..Len(box) |->
             /\ box[i][1] >= 0
             /\ box[i][2] >= 0
             /\ box[i][3] <= im_shape[1]
             /\ box[i][4] <= im_shape[2]])

inside_im_bounds(box, im_shape) ==
    Where([i \in 1..Len(box) |->
             /\ box[i][1] >= 0
             /\ box[i][2] >= 0
             /\ box[i][3] < im_shape[1]
             /\ box[i][4] < im_shape[2]])

(***************************************************************************)
(* calculate_bb_overlap.  Coordinates are integers in units of 1/unit      *)
(* pixel, so the pixel-inclusive "+ 1" is "+ unit".                        *)
(***************************************************************************)
\* bb_overlap with the widths and heights counted without the "+ 1"
bb_overlap_exclusive(rp, gt, unit) ==
    LET gt_box_area == (gt[3] - gt[1]) * (gt[4] - gt[2])
        iw == Min2(rp[3], gt[3]) - Max2(rp[1], gt[1])
        ih == Min2(rp[4], gt[4]) - Max2(rp[2], gt[2])
        ua == (rp[3] - rp[1]) * (rp[4] - rp[2]) + gt_box_area - iw * ih
    IN  IF iw > 0 /\ ih > 0 THEN Frac(iw * ih, ua) ELSE <<0, 1>>

\* bb_overlap dividing by the area of rp alone, not by the area of the union
bb_overlap_rp_area(rp, gt, unit) ==
    LET iw == Min2(rp[3], gt[3]) - Max2(rp[1], gt[1]) + unit
        ih == Min2(rp[4], gt[4]) - Max2(rp[2], gt[2]) + unit
        ua == (rp[3] - rp[1] + unit) * (rp[4] - rp[2] + unit)
    IN  IF iw > 0 /\ ih > 0 THEN Frac(iw * ih, ua) ELSE <<0, 1>>

bb_overlap(rp, gt, unit) ==
    LET gt_box_area == (gt[3] - gt[1] + unit) * (gt[4] - gt[2] + unit)
        iw == Min2(rp[3], gt[3]) - Max2(rp[1], gt[1]) + unit
        ih == Min2(rp[4], gt[4]) - Max2(rp[2], gt[2]) + unit
        ua == (rp[3] - rp[1] + unit) * (rp[4] - rp[2] + unit)
              + gt_box_area - iw * ih
    IN  IF iw > 0 /\ ih > 0 THEN Frac(iw * ih, ua) ELSE <<0, 1>>

\* the R x G matrix, overlaps[r][g]
calculate_bb_overlap(rp, gt, unit) ==
    [r \in 1..Len(rp) |-> [g \in 1..Len(gt) |-> bb_overlap(rp[r], gt[g], unit)]]

\* box * factor
ScaleBox(bb, factor) == [j \in 1..4 |-> bb[j] * factor]

(***************************************************************************)
(* _get_xywh and _compute_targets, in units of 1/unit pixel.  The centre   *)
(* x_min + 0.5 * w is kept doubled (x2 = 2 * x_min + w) to stay integral.  *)
(***************************************************************************)
get_xywh(bb, unit) ==
    LET w == XMax(bb) - XMin(bb) + FRCN_EPS * unit
        h == YMax(bb) - YMin(bb) + FRCN_EPS * unit
    IN  [x2 |-> 2 * XMin(bb) + w, y2 |-> 2 * YMin(bb) + h, w |-> w, h |-> h]

\* compute_target with the ground-truth box as the reference
compute_target_swapped(gt, rp, unit) ==
    LET a == get_xywh(rp, unit)
        t == get_xywh(gt, unit)
    IN  <<Q(t.x2 - a.x2, 2 * t.w),
          Q(t.y2 - a.y2, 2 * t.h),
          Ln(t.w, a.w),
          Ln(t.h, a.h)>>

\* one row of targets: (dx, dy, dw, dh) of ground truth gt against proposal rp
compute_target(gt, rp, unit) ==
    LET a == get_xywh(rp, unit)
        t == get_xywh(gt, unit)
    IN  <<Q(t.x2 - a.x2, 2 * a.w),
          Q(t.y2 - a.y2, 2 * a.h),
          Ln(t.w, a.w),
          Ln(t.h, a.h)>>

compute_targets(gt_bb, rp_bb, unit) ==
    [r \in 1..Len(rp_bb) |-> compute_target(gt_bb[r], rp_bb[r], unit)]

(***************************************************************************)
(* add_anchors: the labelling of one image record (the body of its loop)   *)
(***************************************************************************)
RECURSIVE FracMaxUpTo(_, _)
FracMaxUpTo(s, m) ==
    IF m = 1 THEN s[1] ELSE FracMax(FracMaxUpTo(s, m - 1), s[m])

\* max of a non-empty sequence of fractions
FracMaxSeq(s) == FracMaxUpTo(s, Len(s))

\* overlaps.max(axis=1)
RowMax(overlaps) == [r \in 1..Len(overlaps) |-> FracMaxSeq(overlaps[r])]

\* overlaps.max(axis=0), for G columns
ColMax(overlaps, G) ==
    [g \in 1..G |-> FracMaxSeq([r \in 1..Len(overlaps) |-> overlaps[r][g]])]

\* overlaps.argmax(axis=1): the first (0-based) column holding the row's maximum
ArgMax(overlaps) ==
    [r \in 1..Len(overlaps) |->
        LET m == FracMaxSeq(overlaps[r])
        IN  (CHOOSE g \in 1..Len(overlaps[r]) :
                /\ overlaps[r][g] = m
                /\ \A g2 \in 1..(g - 1) : overlaps[r][g2] # m) - 1]

\* the overlap matrix of a record
Overlaps(db) ==
    LET ss == calculate_scale_shape(db.img_shape)
        idx_inside == inside_im_bounds(generate_all_anchors, ss.im_shape)
        anchors == Gather(generate_all_anchors, idx_inside)
    IN  calculate_bb_overlap(
            [r \in 1..Len(anchors) |-> ScaleBox(anchors[r], ss.im_scale[2])],
            [g \in 1..Len(db.gt_bb) |-> ScaleBox(db.gt_bb[g], ss.im_scale[1])],
            ss.im_scale[2])

\* the reductions over a zero-size axis raise ValueError: overlaps.max(axis=1)
\* when there is no ground-truth box, overlaps.max(axis=0) when no anchor is
\* inside the image
add_anchors_raises(db) ==
    LET ss == calculate_scale_shape(db.img_shape)
    IN  \/ Len(db.gt_bb) = 0
        \/ Len(inside_im_bounds(generate_all_anchors, ss.im_shape)) = 0

\* labels[mask] = v
MaskAssign(labels, mask, v) ==
    [r \in 1..Len(labels) |-> IF mask[r] THEN v ELSE labels[r]]

\* anchor_labels without the per-ground-truth-box foreground mark
anchor_labels_no_gt_idx(overlaps, G) ==
    LET R == Len(overlaps)
        row_max == RowMax(overlaps)
        labels0 == [r \in 1..R |-> IGNORE]
        bg_idx == [r \in 1..R |-> FracLess(row_max[r], NEGATIVE_OVERLAP)]
        labels1 == MaskAssign(labels0, bg_idx, BACKGROUND)
        fg_idx == [r \in 1..R |-> ~FracLess(row_max[r], POSITIVE_OVERLAP)]
    IN  MaskAssign(labels1, fg_idx, FOREGROUND)

\* anchor_labels with the background marks assigned last
anchor_labels_bg_last(overlaps, G) ==
    LET R == Len(overlaps)
        row_max == RowMax(overlaps)
        col_max == ColMax(overlaps, G)
        labels0 == [r \in 1..R |-> IGNORE]
        gt_idx == [r \in 1..R |-> \E g \in 1..G : overlaps[r][g] = col_max[g]]
        labels1 == MaskAssign(labels0, gt_idx, FOREGROUND)
        fg_idx == [r \in 1..R |-> ~FracLess(row_max[r], POSITIVE_OVERLAP)]
        labels2 == MaskAssign(labels1, fg_idx, FOREGROUND)
        bg_idx == [r \in 1..R |-> FracLess(row_max[r], NEGATIVE_OVERLAP)]
    IN  MaskAssign(labels2, bg_idx, BACKGROUND)

\* the labels of the in-bounds anchors: filled with -1, then the background
\* marks, then the two foreground marks, each overwriting the earlier ones
anchor_labels(overlaps, G) ==
    LET R == Len(overlaps)
        row_max == RowMax(overlaps)
        col_max == ColMax(overlaps, G)
        labels0 == [r \in 1..R |-> IGNORE]
        bg_idx == [r \in 1..R |-> FracLess(row_max[r], NEGATIVE_OVERLAP)]
        labels1 == MaskAssign(labels0, bg_idx, BACKGROUND)
        gt_idx == [r \in 1..R |-> \E g \in 1..G : overlaps[r][g] = col_max[g]]
        labels2 == MaskAssign(labels1, gt_idx, FOREGROUND)
        fg_idx == [r \in 1..R |-> ~FracLess(row_max[r], POSITIVE_OVERLAP)]
    IN  MaskAssign(labels2, fg_idx, FOREGROUND)

\* gt_max_overlap_classes
max_overlap_classes(overlaps, gt_classes) ==
    [r \in 1..Len(overlaps) |-> Q(ArgMax(overlaps)[r], 1)]

add_anchors_db(db) ==
    LET ss == calculate_scale_shape(db.img_shape)
        idx_inside == inside_im_bounds(generate_all_anchors, ss.im_shape)
        anchors == Gather(generate_all_anchors, idx_inside)
        overlaps == Overlaps(db)
        argmax == ArgMax(overlaps)
    IN  [labels |-> anchor_labels(overlaps, Len(db.gt_bb)),
         bbox_targets |->
            compute_targets(
                [r \in 1..Len(anchors) |->
                    ScaleBox(At(db.gt_bb, argmax[r]), ss.im_scale[1])],
                [r \in 1..Len(anchors) |-> ScaleBox(anchors[r], ss.im_scale[2])],
                ss.im_scale[2]),
         max_classes |-> max_overlap_classes(overlaps, db.gt_classes),
         total_anchors |-> total_anchors,
         idx_inside |-> idx_inside,
         im_width |-> ss.im_shape[1],
         im_height |-> ss.im_shape[2]] @@ db

(***************************************************************************)
(* _unmap and unmap.  cols = 0 for a one-dimensional array, else the       *)
(* number of columns of its rows.  The result is a float32 array.          *)
(***************************************************************************)
\* the position (1-based) of the last occurrence of index i in inds
LastPos(inds, i) ==
    CHOOSE j \in 1..Len(inds) :
        /\ inds[j] = i
        /\ \A j2 \in (j + 1)..Len(inds) : inds[j2] # i

Cast32(x, cols) ==
    IF cols = 0 THEN ToFloat32(x) ELSE [c \in 1..cols |-> ToFloat32(x[c])]

\* unmap_array writing the data at the front, not at inds
unmap_array_front(data, cols, count, inds, fill) ==
    [i \in 1..count |->
        IF i <= Len(data)
        THEN Cast32(data[i], cols)
        ELSE IF cols = 0 THEN ToFloat32(fill)
        ELSE [c \in 1..cols |-> ToFloat32(fill)]]

unmap_array(data, cols, count, inds, fill) ==
    [i \in 1..count |->
        IF \E j \in 1..Len(inds) : inds[j] = i - 1
        THEN Cast32(data[LastPos(inds, i - 1)], cols)
        ELSE IF cols = 0 THEN ToFloat32(fill)
        ELSE [c \in 1..cols |-> ToFloat32(fill)]]

\* unmap_db filling the labels outside idx_inside with 0
unmap_db_fill0(db) ==
    [db EXCEPT
        !.labels = unmap_array(db.labels, 0, db.total_anchors, db.idx_inside, Q(0, 1)),
        !.bbox_targets = unmap_array(db.bbox_targets, 4, db.total_anchors,
                                     db.idx_inside, Q(0, 1)),
        !.max_classes = unmap_array(db.max_classes, 0, db.total_anchors,
                                    db.idx_inside, Q(0, 1))]

unmap_db(db) ==
    [db EXCEPT
        !.labels = unmap_array(db.labels, 0, db.total_anchors, db.idx_inside, Q(-1, 1)),
        !.bbox_targets = unmap_array(db.bbox_targets, 4, db.total_anchors,
                                     db.idx_inside, Q(0, 1)),
        !.max_classes = unmap_array(db.max_classes, 0, db.total_anchors,
                                    db.idx_inside, Q(0, 1))]

(***************************************************************************)
(* _sample_anchors.  fg_draw and bg_draw are what the two calls of         *)
(* rng.choice return; they are read only when deterministic is false.      *)
(***************************************************************************)
\* NumFg with the fraction fixed at one half
NumFg_half(fg_fractions, nrois) == nrois \div 2

\* int(fg_fractions * nrois) for fg_fractions = f[1] / f[2]
NumFg(fg_fractions, nrois) == (fg_fractions[1] * nrois) \div fg_fractions[2]

LabelIdx(db, v) == Where([i \in 1..Len(db.labels) |-> db.labels[i] = v])

NumFgThisImg(db, nrois, fg_fractions) ==
    Min2(NumFg(fg_fractions, nrois), Len(LabelIdx(db, FOREGROUND)))

NumBgThisImg(db, nrois, fg_fractions) ==
    Min2(nrois - NumFgThisImg(db, nrois, fg_fractions), Len(LabelIdx(db, BACKGROUND)))

\* rng.choice(a, size, replace=False): every ordered draw of size distinct
\* elements of a
Choice(a, size) ==
    {[j \in 1..size |-> a[s[j]]] :
        s \in {t \in [1..size -> 1..Len(a)] :
                  \A i, j \in 1..size : i # j => t[i] # t[j]}}

\* sample_idx taking the last candidates, not the first, when deterministic
sample_idx_tail(db, nrois, fg_fractions, deterministic, fg_draw, bg_draw) ==
    LET fg_idx == LabelIdx(db, FOREGROUND)
        bg_idx == LabelIdx(db, BACKGROUND)
        num_fg_this_img == NumFgThisImg(db, nrois, fg_fractions)
        num_bg_this_img == NumBgThisImg(db, nrois, fg_fractions)
    IN  IF deterministic
        THEN SubSeq(fg_idx, Len(fg_idx) - num_fg_this_img + 1, Len(fg_idx))
             \o SubSeq(bg_idx, Len(bg_idx) - num_bg_this_img + 1, Len(bg_idx))
        ELSE fg_draw \o bg_draw

sample_idx(db, nrois, fg_fractions, deterministic, fg_draw, bg_draw) ==
    LET fg_idx == LabelIdx(db, FOREGROUND)
        bg_idx == LabelIdx(db, BACKGROUND)
        num_fg_this_img == NumFgThisImg(db, nrois, fg_fractions)
        num_bg_this_img == NumBgThisImg(db, nrois, fg_fractions)
    IN  IF deterministic
        THEN SubSeq(fg_idx, 1, num_fg_this_img) \o SubSeq(bg_idx, 1, num_bg_this_img)
        ELSE fg_draw \o bg_draw

\* sample_anchors without the assertion
sample_anchors_no_assert(db, nrois, fg_fractions, deterministic, fg_draw, bg_draw) ==
    LET idx == sample_idx(db, nrois, fg_fractions, deterministic, fg_draw, bg_draw)
    IN  [status |-> "returned",
         labels |-> Gather(db.labels, idx),
         bbox_targets |-> Gather(db.bbox_targets, idx),
         idx |-> idx]

\* what the call gives back: the returned triple, or the failed assertion
\* len(idx) == nrois
sample_anchors(db, nrois, fg_fractions, deterministic, fg_draw, bg_draw) ==
    LET idx == sample_idx(db, nrois, fg_fractions, deterministic, fg_draw, bg_draw)
    IN  IF Len(idx) # nrois
        THEN [status |-> "AssertionError"]
        ELSE [status |-> "returned",
              labels |-> Gather(db.labels, idx),
              bbox_targets |-> Gather(db.bbox_targets, idx),
              idx |-> idx]

(***************************************************************************)
(* add_flipped_db: the records followed by their mirrored copies           *)
(***************************************************************************)
add_flipped_db(db_list) ==
    db_list \o
    [k \in 1..Len(db_list) |->
        LET db == db_list[k]
            width == db.img_shape[1]
        IN  [db EXCEPT
                !.gt_bb = [g \in 1..Len(db.gt_bb) |->
                              <<width - XMax(db.gt_bb[g]) - 1, YMin(db.gt_bb[g]),
                                width - XMin(db.gt_bb[g]) - 1, YMax(db.gt_bb[g])>>],
                !.flipped = TRUE]]

(***************************************************************************)
(* The body of the minibatch loop of __iter__ after _sample_anchors has    *)
(* returned sampled = (labels, bbox_targets, anchor_index): the record,    *)
(* the four local arrays and the target buffers as the batch leaves them   *)
(***************************************************************************)
\* the locals label, label_mask, bbtargets, bbtargets_mask of __iter__ as it
\* allocates them: all zero
ZeroBufs ==
    [label |-> [i \in 1..total_anchors |-> Q(0, 1)],
     label_mask |-> [i \in 1..total_anchors |-> 0],
     bbtargets |-> [i \in 1..total_anchors |-> [c \in 1..4 |-> Q(0, 1)]],
     bbtargets_mask |-> [i \in 1..total_anchors |-> [c \in 1..4 |-> 0]]]

\* arr after arr[idx, :] = vals (vals[j] written at row idx[j], 0-based)
Scatter(arr, idx, vals) ==
    [i \in 1..Len(arr) |->
        IF \E j \in 1..Len(idx) : idx[j] = i - 1
        THEN vals[LastPos(idx, i - 1)]
        ELSE arr[i]]

\* a.T.reshape((-1, 1)) of an array of rows of cols columns
TransposeFlat(a, cols) ==
    [i \in 1..(cols * Len(a)) |-> a[((i - 1) % Len(a)) + 1][((i - 1) \div Len(a)) + 1]]

\* iter_batch writing the batch's labels into the record
iter_batch_inplace(db, bufs, sampled) ==
    LET idx == sampled.idx
        label == Scatter(ZeroBufs.label, idx, sampled.labels)
        label_mask == Scatter(ZeroBufs.label_mask, idx, [j \in 1..Len(idx) |-> 1])
        bbtargets == Scatter(ZeroBufs.bbtargets, idx, sampled.bbox_targets)
        bbtargets_mask ==
            [i \in 1..total_anchors |->
                IF label[i] = FOREGROUND THEN [c \in 1..4 |-> 1] ELSE [c \in 1..4 |-> 0]]
    IN  [db |-> [db EXCEPT !.labels = label],
         bufs |-> [label |-> label, label_mask |-> label_mask,
                   bbtargets |-> bbtargets, bbtargets_mask |-> bbtargets_mask],
         Y |-> [dev_y_labels_flat |-> label,
                dev_y_labels_mask |-> label_mask \o label_mask,
                dev_y_bbtargets |-> TransposeFlat(db.bbox_targets, 4),
                dev_y_bbtargets_mask |-> TransposeFlat(bbtargets_mask, 4)]]

\* iter_batch without the four fill(0) calls
iter_batch_nofill(db, bufs, sampled) ==
    LET idx == sampled.idx
        label == Scatter(bufs.label, idx, sampled.labels)
        label_mask == Scatter(bufs.label_mask, idx, [j \in 1..Len(idx) |-> 1])
        bbtargets == Scatter(bufs.bbtargets, idx, sampled.bbox_targets)
        bbtargets_mask ==
            [i \in 1..total_anchors |->
                IF label[i] = FOREGROUND THEN [c \in 1..4 |-> 1]
                ELSE bufs.bbtargets_mask[i]]
    IN  [db |-> db,
         bufs |-> [label |-> label, label_mask |-> label_mask,
                   bbtargets |-> bbtargets, bbtargets_mask |-> bbtargets_mask],
         Y |-> [dev_y_labels_flat |-> label,
                dev_y_labels_mask |-> label_mask \o label_mask,
                dev_y_bbtargets |-> TransposeFlat(db.bbox_targets, 4),
                dev_y_bbtargets_mask |-> TransposeFlat(bbtargets_mask, 4)]]

iter_batch(db, bufs, sampled) ==
    LET idx == sampled.idx
        \* label.fill(0); label[anchor_index, :] = labels[:, np.newaxis]
        label == Scatter(ZeroBufs.label, idx, sampled.labels)
        \* label_mask.fill(0); label_mask[anchor_index, :] = 1
        label_mask == Scatter(ZeroBufs.label_mask, idx, [j \in 1..Len(idx) |-> 1])
        \* bbtargets.fill(0); bbtargets[anchor_index, :] = bbox_targets
        bbtargets == Scatter(ZeroBufs.bbtargets, idx, sampled.bbox_targets)
        \* bbtargets_mask.fill(0); bbtargets_mask[np.where(label == 1)[0]] = 1
        bbtargets_mask ==
            [i \in 1..total_anchors |->
                IF label[i] = FOREGROUND THEN [c \in 1..4 |-> 1] ELSE [c \in 1..4 |-> 0]]
    IN  [db |-> db,
         bufs |-> [label |-> label, label_mask |-> label_mask,
                   bbtargets |-> bbtargets, bbtargets_mask |-> bbtargets_mask],
         Y |-> [dev_y_labels_flat |-> label,
                dev_y_labels_mask |-> label_mask \o label_mask,
                dev_y_bbtargets |-> TransposeFlat(db.bbox_targets, 4),
                dev_y_bbtargets_mask |-> TransposeFlat(bbtargets_mask, 4)]]

(***************************************************************************)
(* _shuffle_roidb.  horz_perm, vert_perm and row_perm are what the three   *)
(* calls of rng.permutation return.                                        *)
(***************************************************************************)
\* rng.permutation(a): every reordering of a
Permutation(a) ==
    {[j \in 1..Len(a) |-> a[s[j]]] :
        s \in {t \in [1..Len(a) -> 1..Len(a)] :
                  \A i, j \in 1..Len(a) : i # j => t[i] # t[j]}}

\* np.where(horz)[0] and np.where(vert)[0]
HorzInds(db_list) ==
    Where([k \in 1..Len(db_list) |-> db_list[k].im_width >= db_list[k].im_height])

VertInds(db_list) ==
    Where([k \in 1..Len(db_list) |-> ~(db_list[k].im_width >= db_list[k].im_height)])

\* np.arange(inds.shape[0]) of the (-1, 2) reshape of n indices
RowRange(n) == [j \in 1..(n \div 2) |-> j - 1]

\* shuffle_roidb reordering the indices one by one, not in rows of two
shuffle_roidb_unpaired(db_list, horz_perm, vert_perm, row_perm) ==
    LET inds == horz_perm \o vert_perm
    IN  IF Len(inds) % 2 # 0
        THEN [status |-> "ValueError"]
        ELSE [status |-> "returned",
              inds |-> [j \in 1..Len(inds) |->
                          IF j <= Len(row_perm)
                          THEN inds[2 * row_perm[j] + 1]
                          ELSE inds[2 * row_perm[j - Len(row_perm)] + 2]]]

\* the ordering, or the ValueError np.reshape(inds, (-1, 2)) raises on an odd
\* number of indices
shuffle_roidb(db_list, horz_perm, vert_perm, row_perm) ==
    LET inds == horz_perm \o vert_perm
    IN  IF Len(inds) % 2 # 0
        THEN [status |-> "ValueError"]
        ELSE [status |-> "returned",
              inds |-> [j \in 1..Len(inds) |->
                          inds[2 * row_perm[(j + 1) \div 2] + 2 - (j % 2)]]]

(***************************************************************************)
(* State                                                                   *)
(***************************************************************************)
VARIABLES
    pc,         \* where the constructor is: "new", "labeled" (add_anchors done),
                \* "ready" (unmap done), "failed" (the constructor raised);
                \* "fn" when a utility function is called on its own
    err,        \* the exception the constructor raised, or "none"
    roi_db,     \* self.roi_db: the sequence of image records
    rng_calls,  \* how many times self.be.rng.choice has been called
    last,       \* the last call of _sample_anchors: arguments and outcome
    call,       \* a utility function called on its own: its name and arguments
    result,     \* what that call returned
    config,     \* the attributes the constructor derives from its arguments:
                \* shuffle, deterministic, rois_per_img, num_image_entries, nbatches
    batch_index,\* self.batch_index
    gen,        \* the generator __iter__ returned last: where it stands and its
                \* locals shuf_idx, label, label_mask, bbtargets, bbtargets_mask
    Y           \* the target buffers dev_y_* a yielded batch refers to

\* the state of the iteration over the dataset
iter_vars == <<config, batch_index, gen, Y>>

vars == <<pc, err, roi_db, rng_calls, last, call, result, config, batch_index, gen, Y>>

(***************************************************************************)
(* Inputs: the mock_db record the constructor is given                     *)
(***************************************************************************)
\* raw image sizes (width, height)
ImgShapes == {<<600, 600>>, <<300, 400>>, <<1000, 599>>, <<1200, 600>>, <<2000, 400>>}

\* raw ground-truth boxes
GtBoxSet == {<<0, 0, 149, 149>>, <<300, 0, 599, 299>>, <<150, 0, 449, 299>>,
             <<0, 300, 149, 399>>}

\* class ids of ground-truth boxes
GtClassSet == {7, 15}

FgFractions == {<<1, 4>>, <<1, 2>>, <<3, 4>>}

SeqsUpTo(S, m) == UNION {[1..k -> S] : k \in 0..m}

MockRecords ==
    UNION {
        UNION {
            {[img_shape |-> shape, gt_bb |-> bbs, gt_classes |-> cls, flipped |-> FALSE] :
                cls \in [1..Len(bbs) -> GtClassSet]} :
            bbs \in SeqsUpTo({b \in GtBoxSet : b[3] < shape[1] /\ b[4] < shape[2]}, MaxGt)} :
        shape \in ImgShapes}

NoCall == [fn |-> "none"]

\* no generator has been made
NoGen == [state |-> "none", err |-> "none", shuf_idx |-> <<>>, pos |-> 0,
          bufs |-> ZeroBufs]

\* the target buffers as allocate leaves them: all zero
ZeroY ==
    [dev_y_labels_flat |-> [i \in 1..total_anchors |-> Q(0, 1)],
     dev_y_labels_mask |-> [i \in 1..(2 * total_anchors) |-> 0],
     dev_y_bbtargets |-> [i \in 1..(4 * total_anchors) |-> Q(0, 1)],
     dev_y_bbtargets_mask |-> [i \in 1..(4 * total_anchors) |-> 0]]

\* the attributes of a dataset made from mock_db with the default arguments
MockConfig ==
    [shuffle |-> FALSE, deterministic |-> FALSE, rois_per_img |-> MaxRois,
     num_image_entries |-> 1, nbatches |-> 1]

Init ==
    /\ pc = "new"
    /\ err = "none"
    /\ roi_db \in {<<r>> : r \in MockRecords}
    /\ rng_calls = 0
    /\ last = NoCall
    /\ call = NoCall
    /\ result = NoCall
    /\ config = MockConfig
    /\ batch_index = 0
    /\ gen = NoGen
    /\ Y = ZeroY

(***************************************************************************)
(* The constructor: add_anchors over the records, then unmap               *)
(***************************************************************************)
AddAnchors ==
    /\ pc = "new"
    /\ IF \E k \in 1..Len(roi_db) : add_anchors_raises(roi_db[k])
       THEN /\ pc' = "failed"
            /\ err' = "ValueError"
            /\ UNCHANGED roi_db
       ELSE /\ pc' = "labeled"
            /\ roi_db' = [k \in 1..Len(roi_db) |-> add_anchors_db(roi_db[k])]
            /\ UNCHANGED err
    /\ UNCHANGED <<rng_calls, last, call, result>>
    /\ UNCHANGED iter_vars

Unmap ==
    /\ pc = "labeled"
    /\ pc' = "ready"
    /\ roi_db' = [k \in 1..Len(roi_db) |-> unmap_db(roi_db[k])]
    /\ UNCHANGED <<err, rng_calls, last, call, result>>
    /\ UNCHANGED iter_vars

(***************************************************************************)
(* A call of _sample_anchors on record k                                   *)
(***************************************************************************)
SampleCall(k, nrois, fg_fractions, deterministic, fg_draw, bg_draw) ==
    [fn |-> "_sample_anchors", k |-> k, nrois |-> nrois,
     fg_fractions |-> fg_fractions, deterministic |-> deterministic,
     ret |-> sample_anchors(roi_db[k], nrois, fg_fractions, deterministic,
                            fg_draw, bg_draw)]

SampleAnchorsDeterministic ==
    /\ pc = "ready"
    /\ \E k \in 1..Len(roi_db), nrois \in 1..MaxRois, f \in FgFractions :
          last' = SampleCall(k, nrois, f, TRUE, <<>>, <<>>)
    /\ UNCHANGED <<pc, err, roi_db, rng_calls, call, result>>
    /\ UNCHANGED iter_vars

SampleAnchorsRandom ==
    /\ pc = "ready"
    /\ rng_calls + 2 <= MaxRngCalls
    /\ \E k \in 1..Len(roi_db), nrois \in 1..MaxRois, f \in FgFractions :
          \E fg_draw \in Choice(LabelIdx(roi_db[k], FOREGROUND),
                                 NumFgThisImg(roi_db[k], nrois, f)),
             bg_draw \in Choice(LabelIdx(roi_db[k], BACKGROUND),
                                 NumBgThisImg(roi_db[k], nrois, f)) :
             last' = SampleCall(k, nrois, f, FALSE, fg_draw, bg_draw)
    /\ rng_calls' = rng_calls + 2
    /\ UNCHANGED <<pc, err, roi_db, call, result>>
    /\ UNCHANGED iter_vars

Next ==
    \/ AddAnchors
    \/ Unmap
    \/ SampleAnchorsDeterministic
    \/ SampleAnchorsRandom

Spec == Init /\ [][Next]_vars

(***************************************************************************)
(* The utility functions called on their own, on arguments drawn from      *)
(* bounded sets                                                            *)
(***************************************************************************)
\* array elements: three that float32 holds exactly, two that it does not
UnmapValues == {Q(0, 1), Q(1, 1), Q(1, 3)}

UnmapFills == {Q(-1, 1), Q(0, 1), Q(1, 10)}

\* index arrays: distinct 0-based indices below count, in any order
IndexArrays(count) ==
    {s \in SeqsUpTo(0..(count - 1), count) :
        \A i, j \in 1..Len(s) : i # j => s[i] # s[j]}

\* _unmap(full[inds], count, inds, fill), full one-dimensional or with two columns
UnmapCalls ==
    UNION {
        {[fn |-> "_unmap", full |-> full, cols |-> 0, count |-> count,
          inds |-> inds, fill |-> fill] :
            full \in [1..count -> UnmapValues], inds \in IndexArrays(count),
            fill \in UnmapFills}
        \cup
        {[fn |-> "_unmap", full |-> [i \in 1..count |-> <<full[i], fill>>], cols |-> 2,
          count |-> count, inds |-> inds, fill |-> fill] :
            full \in [1..count -> UnmapValues], inds \in IndexArrays(count),
            fill \in UnmapFills} :
        count \in 1..MaxTotal}

ScaleCalls ==
    LET Sides == {200 * k + j : k \in 1..MaxSideSteps, j \in 0..1}
    IN  {[fn |-> "calculate_scale_shape", size |-> <<w, h>>] : w \in Sides, h \in Sides}

\* boxes lying on either side of each edge of a w x h image
InsideCalls ==
    UNION {
        {[fn |-> "inside_im_bounds", box |-> box, im_shape |-> <<w, h>>] :
            box \in SeqsUpTo({<<x1, y1, x2, y2>> :
                                 x1 \in {-1, 0}, y1 \in {-1, 0},
                                 x2 \in {w - 1, w}, y2 \in {h - 1, h}}, MaxBoxes)} :
        w \in 1..MaxDim, h \in 1..MaxDim}

\* valid boxes with coordinates 0..MaxCoord, in units of 1/unit pixel
ValidBoxes ==
    {b \in (0..MaxCoord) \X (0..MaxCoord) \X (0..MaxCoord) \X (0..MaxCoord) :
        XMax(b) >= XMin(b) /\ YMax(b) >= YMin(b)}

\* calculate_bb_overlap of two boxes against themselves: all four pairs
OverlapCalls ==
    {[fn |-> "calculate_bb_overlap", rp |-> <<a, b>>, gt |-> <<a, b>>, unit |-> u] :
        a \in ValidBoxes, b \in ValidBoxes, u \in 1..2}

\* raw sizes of images given to _shuffle_roidb: two wider than high, two higher
\* than wide, one square
ShuffleShapes == {<<100, 50>>, <<50, 100>>, <<120, 60>>, <<60, 130>>, <<80, 80>>}

\* the fields of a labelled record that _shuffle_roidb reads
SizedRecord(shape) ==
    [img_shape |-> shape,
     im_width |-> calculate_scale_shape(shape).im_shape[1],
     im_height |-> calculate_scale_shape(shape).im_shape[2]]

ShuffleCalls ==
    {[fn |-> "_shuffle_roidb", roi_db |-> [k \in 1..Len(shapes) |-> SizedRecord(shapes[k])]] :
        shapes \in SeqsUpTo(ShuffleShapes, MaxShuffle)}

InitFn ==
    /\ pc = "fn"
    /\ err = "none"
    /\ roi_db = <<>>
    /\ rng_calls = 0
    /\ last = NoCall
    /\ \/ call \in UnmapCalls
       \/ call \in ScaleCalls
       \/ call \in InsideCalls
       \/ call \in OverlapCalls
       \/ call \in ShuffleCalls
    /\ result = NoCall
    /\ config = MockConfig
    /\ batch_index = 0
    /\ gen = NoGen
    /\ Y = ZeroY

CallUnmap ==
    /\ pc = "fn"
    /\ call.fn = "_unmap"
    /\ result = NoCall
    /\ result' = [fn |-> call.fn,
                  ret |-> unmap_array(Gather(call.full, call.inds), call.cols,
                                      call.count, call.inds, call.fill)]
    /\ UNCHANGED <<pc, err, roi_db, rng_calls, last, call>>
    /\ UNCHANGED iter_vars

CallScaleShape ==
    /\ pc = "fn"
    /\ call.fn = "calculate_scale_shape"
    /\ result = NoCall
    /\ result' = [fn |-> call.fn, ret |-> calculate_scale_shape(call.size)]
    /\ UNCHANGED <<pc, err, roi_db, rng_calls, last, call>>
    /\ UNCHANGED iter_vars

CallInside ==
    /\ pc = "fn"
    /\ call.fn = "inside_im_bounds"
    /\ result = NoCall
    /\ result' = [fn |-> call.fn, ret |-> inside_im_bounds(call.box, call.im_shape)]
    /\ UNCHANGED <<pc, err, roi_db, rng_calls, last, call>>
    /\ UNCHANGED iter_vars

CallOverlap ==
    /\ pc = "fn"
    /\ call.fn = "calculate_bb_overlap"
    /\ result = NoCall
    /\ result' = [fn |-> call.fn,
                  ret |-> calculate_bb_overlap(call.rp, call.gt, call.unit)]
    /\ UNCHANGED <<pc, err, roi_db, rng_calls, last, call>>
    /\ UNCHANGED iter_vars

CallShuffle ==
    /\ pc = "fn"
    /\ call.fn = "_shuffle_roidb"
    /\ result = NoCall
    /\ \E horz_perm \in Permutation(HorzInds(call.roi_db)),
          vert_perm \in Permutation(VertInds(call.roi_db)),
          row_perm \in Permutation(RowRange(Len(call.roi_db))) :
          result' = [fn |-> call.fn,
                     ret |-> shuffle_roidb(call.roi_db, horz_perm, vert_perm, row_perm)]
    /\ UNCHANGED <<pc, err, roi_db, rng_calls, last, call>>
    /\ UNCHANGED iter_vars

NextFn ==
    \/ CallUnmap
    \/ CallScaleShape
    \/ CallInside
    \/ CallOverlap
    \/ CallShuffle

SpecFn == InitFn /\ [][NextFn]_vars

(***************************************************************************)
(* Iterating over a dataset built from image files: the state after the    *)
(* constructor (load_roi_groundtruth, add_flipped_db, add_anchors, unmap)  *)
(* and the calls of __iter__, of next on its generator, and of reset       *)
(***************************************************************************)
\* identity_order counting down
identity_order_reversed(num_image_entries) ==
    [j \in 1..num_image_entries |-> num_image_entries - j]

\* list(range(self.num_image_entries))
identity_order(num_image_entries) == [j \in 1..num_image_entries |-> j - 1]

\* what load_annotation returns for the images of the index file
IterImages ==
    {[img_shape |-> <<600, 600>>, gt_bb |-> << <<300, 0, 599, 299>> >>,
      gt_classes |-> <<7>>, flipped |-> FALSE],
     [img_shape |-> <<300, 400>>, gt_bb |-> << <<0, 0, 149, 149>> >>,
      gt_classes |-> <<15>>, flipped |-> FALSE],
     [img_shape |-> <<1000, 599>>, gt_bb |-> << <<150, 0, 449, 299>> >>,
      gt_classes |-> <<7>>, flipped |-> FALSE]}

\* the constructor's n_mb: <<>> for None, else <<n>>
NmbArgs(num_image_entries) == {<<>>, <<1>>, <<num_image_entries + 1>>}

\* the constructor's rpn_rois_per_img
RoisArgs == {2}

SubsetPcts == {50, 100}

\* self.roi_db after the constructor
BuiltRoiDb(images, add_flipped) ==
    LET roi_db0 == IF add_flipped THEN add_flipped_db(images) ELSE images
    IN  [k \in 1..Len(roi_db0) |-> unmap_db(add_anchors_db(roi_db0[k]))]

\* the attributes the constructor derives from its arguments
BuiltConfig(num_images, add_flipped, shuffle, deterministic, rpn_rois_per_img, n_mb, subset_pct) ==
    LET num_image_entries == IF add_flipped THEN num_images * 2 ELSE num_images
    IN  [shuffle |-> shuffle, deterministic |-> deterministic,
         rois_per_img |-> rpn_rois_per_img,
         num_image_entries |-> num_image_entries,
         nbatches |-> IF n_mb # <<>> THEN n_mb[1]
                      ELSE (num_image_entries * subset_pct) \div 100]

InitIter ==
    /\ pc = "ready"
    /\ err = "none"
    /\ \E images \in SeqsUpTo(IterImages, MaxEntries) \ {<<>>}, add_flipped \in BOOLEAN :
          /\ add_flipped => 2 * Len(images) <= MaxEntries
          /\ roi_db = BuiltRoiDb(images, add_flipped)
          /\ \E shuffle \in BOOLEAN, deterministic \in BOOLEAN,
                rpn_rois_per_img \in RoisArgs, subset_pct \in SubsetPcts :
                \E n_mb \in NmbArgs(Len(roi_db)) :
                    /\ n_mb # <<>> => subset_pct = 100
                    /\ config = BuiltConfig(Len(images), add_flipped, shuffle,
                                            deterministic, rpn_rois_per_img, n_mb,
                                            subset_pct)
    /\ rng_calls = 0
    /\ last = NoCall
    /\ call = NoCall
    /\ result = NoCall
    /\ batch_index = 0
    /\ gen = NoGen
    /\ Y = ZeroY

\* ds.__iter__(): a new generator, none of its body run yet
Iter ==
    /\ pc = "ready"
    /\ gen' = [NoGen EXCEPT !.state = "unstarted"]
    /\ UNCHANGED <<pc, err, roi_db, rng_calls, last, call, result, config,
                   batch_index, Y>>

\* ds.reset()
Reset ==
    /\ pc = "ready"
    /\ batch_index' = 0
    /\ UNCHANGED <<pc, err, roi_db, rng_calls, last, call, result, config, gen, Y>>

\* the generator raises exception e with its locals as they stand
Raise(shuf_idx, bufs, k, e) ==
    gen' = [state |-> "raised", err |-> e, shuf_idx |-> shuf_idx, pos |-> k,
            bufs |-> bufs]

\* one round of "for self.batch_index in range(self.nbatches)" with k batches
\* yielded before, up to the next yield, the end of the loop or an exception;
\* bi is self.batch_index as the round finds it
LoopRound(shuf_idx, bufs, k, bi) ==
    IF k >= config.nbatches
    THEN /\ gen' = [state |-> "finished", err |-> "none", shuf_idx |-> shuf_idx,
                    pos |-> k, bufs |-> bufs]
         /\ batch_index' = bi
         /\ UNCHANGED <<roi_db, rng_calls, last, Y>>
    ELSE IF k >= Len(shuf_idx)
    THEN /\ Raise(shuf_idx, bufs, k, "IndexError")
         /\ batch_index' = k
         /\ UNCHANGED <<roi_db, rng_calls, last, Y>>
    ELSE LET im == shuf_idx[k + 1] + 1
             db == roi_db[im]
             nrois == config.rois_per_img
         IN  /\ batch_index' = k
             /\ IF config.deterministic
                THEN /\ last' = SampleCall(im, nrois, FG_FRACTION, TRUE, <<>>, <<>>)
                     /\ UNCHANGED rng_calls
                ELSE /\ rng_calls + 2 <= MaxIterRngCalls
                     /\ rng_calls' = rng_calls + 2
                     /\ \E fg_draw \in Choice(LabelIdx(db, FOREGROUND),
                                               NumFgThisImg(db, nrois, FG_FRACTION)),
                           bg_draw \in Choice(LabelIdx(db, BACKGROUND),
                                               NumBgThisImg(db, nrois, FG_FRACTION)) :
                           last' = SampleCall(im, nrois, FG_FRACTION, FALSE,
                                              fg_draw, bg_draw)
             /\ IF last'.ret.status = "AssertionError"
                THEN /\ Raise(shuf_idx, bufs, k, "AssertionError")
                     /\ UNCHANGED <<roi_db, Y>>
                ELSE LET b == iter_batch(db, bufs, last'.ret)
                     IN  /\ roi_db' = [roi_db EXCEPT ![im] = b.db]
                         /\ Y' = b.Y
                         /\ gen' = [state |-> "suspended", err |-> "none",
                                    shuf_idx |-> shuf_idx, pos |-> k + 1,
                                    bufs |-> b.bufs]

\* the first next(gen): batch_index = 0, the epoch's ordering, the four local
\* arrays, then the first round of the loop
NextFirst ==
    /\ pc = "ready"
    /\ gen.state = "unstarted"
    /\ IF ~config.shuffle
       THEN LoopRound(identity_order(config.num_image_entries), ZeroBufs, 0, 0)
       ELSE \E horz_perm \in Permutation(HorzInds(roi_db)),
               vert_perm \in Permutation(VertInds(roi_db)),
               row_perm \in Permutation(RowRange(Len(roi_db))) :
               LET s == shuffle_roidb(roi_db, horz_perm, vert_perm, row_perm)
               IN  IF s.status = "ValueError"
                   THEN /\ Raise(<<>>, ZeroBufs, 0, "ValueError")
                        /\ batch_index' = 0
                        /\ UNCHANGED <<roi_db, rng_calls, last, Y>>
                   ELSE LoopRound(s.inds, ZeroBufs, 0, 0)
    /\ UNCHANGED <<pc, err, call, result, config>>

\* a later next(gen): the next round of the loop
NextResume ==
    /\ pc = "ready"
    /\ gen.state = "suspended"
    /\ LoopRound(gen.shuf_idx, gen.bufs, gen.pos, batch_index)
    /\ UNCHANGED <<pc, err, call, result, config>>

NextIter ==
    \/ Iter
    \/ Reset
    \/ NextFirst
    \/ NextResume

SpecIter == InitIter /\ [][NextIter]_vars

(***************************************************************************)
(* Properties.  What they say of a labelled record is said of its          *)
(* in-bounds anchors r = 1..R, in both layouts of the record: right after  *)
(* add_anchors the arrays hold the in-bounds anchors only, after unmap     *)
(* they cover the whole grid and anchor r sits at index idx_inside[r].     *)
(***************************************************************************)
Labelled == pc \in {"labeled", "ready"}

NumInside(db) == Len(db.idx_inside)

LabelOf(db, r) ==
    IF pc = "labeled" THEN db.labels[r] ELSE At(db.labels, db.idx_inside[r])

MaxClassOf(db, r) ==
    IF pc = "labeled" THEN db.max_classes[r] ELSE At(db.max_classes, db.idx_inside[r])

\* a <= b for fractions
FracLeq(a, b) == ~FracLess(b, a)

\* anchor r overlaps ground-truth box g at least as much as every anchor does
AttainsColumnMax(ov, r, g) == \A r2 \in 1..Len(ov) : FracLeq(ov[r2][g], ov[r][g])

\* C1 as stated: after add_anchors has labelled an image with at least one
\* ground-truth box and one in-bounds anchor, every ground-truth box index g is the
\* row-wise argmax (the stored max_classes entry) of some anchor labelled FOREGROUND.
C1_EveryGtIsArgmaxOfForeground ==
    Labelled =>
        \A k \in 1..Len(roi_db) :
            \A g \in 1..Len(roi_db[k].gt_bb) :
                \E r \in 1..NumInside(roi_db[k]) :
                    /\ LabelOf(roi_db[k], r) = FOREGROUND
                    /\ MaxClassOf(roi_db[k], r) = Q(g - 1, 1)

\* C1, amended: after labelling, every ground-truth box g has at least one anchor
\* labelled FOREGROUND that attains g's column-wise maximum overlap (the argmax of
\* that anchor may be another box).
C1_EveryGtHasForegroundColumnMax ==
    Labelled =>
        \A k \in 1..Len(roi_db) :
            \A g \in 1..Len(roi_db[k].gt_bb) :
                \E r \in 1..NumInside(roi_db[k]) :
                    /\ LabelOf(roi_db[k], r) = FOREGROUND
                    /\ AttainsColumnMax(Overlaps(roi_db[k]), r, g)

\* a labelled image with two ground-truth boxes, one of which no anchor overlaps
\* by POSITIVE_OVERLAP or more
C1_Witness ==
    /\ pc = "labeled"
    /\ Len(roi_db[1].gt_bb) = 2
    /\ \E g \in 1..2 :
          \A r \in 1..NumInside(roi_db[1]) :
              FracLess(Overlaps(roi_db[1])[r][g], POSITIVE_OVERLAP)

C3_NoGtAllBackground ==
    (pc # "new" /\ \E k \in 1..Len(roi_db) : Len(roi_db[k].gt_bb) = 0) =>
        /\ pc # "failed"
        /\ err = "none"
        /\ \A k \in 1..Len(roi_db) :
              Len(roi_db[k].gt_bb) = 0 =>
                  \A r \in 1..NumInside(roi_db[k]) : LabelOf(roi_db[k], r) = BACKGROUND

(***************************************************************************)
(* _sample_anchors: what the claims expect, counted without the model's    *)
(* own index arrays                                                        *)
(***************************************************************************)
Sampled == last.fn = "_sample_anchors"

Returned == Sampled /\ last.ret.status = "returned"

\* the 0-based indices of the anchors of db labelled v
IndicesLabelled(db, v) == {i - 1 : i \in {j \in 1..Len(db.labels) : db.labels[j] = v}}

\* floor(f * n)
FloorMul(f, n) ==
    CHOOSE m \in 0..n : m * f[2] <= f[1] * n /\ f[1] * n < (m + 1) * f[2]

ActualFg(db, n, f) == Min2(FloorMul(f, n), Cardinality(IndicesLabelled(db, FOREGROUND)))

ActualBg(db, n, f) ==
    Min2(n - ActualFg(db, n, f), Cardinality(IndicesLabelled(db, BACKGROUND)))

CountOf(seq, v) == Cardinality({j \in 1..Len(seq) : seq[j] = v})

\* C4 as stated: when fewer foreground plus background anchors are available than
\* nrois, _sample_anchors does not fail and returns a selection of length
\* actual_fg + actual_bg, shorter than nrois.
C4_ShortSelectionReturned ==
    Sampled =>
        LET db == roi_db[last.k]
            avail == ActualFg(db, last.nrois, last.fg_fractions)
                     + ActualBg(db, last.nrois, last.fg_fractions)
        IN  avail < last.nrois =>
                /\ last.ret.status = "returned"
                /\ Len(last.ret.idx) = avail

\* C4, amended: when actual_fg + actual_bg < nrois the call fails its assertion
\* len(idx) == nrois and returns nothing; a call that returns gives exactly nrois
\* indices.
C4_ShortSelectionFailsAssertion ==
    Sampled =>
        LET db == roi_db[last.k]
            avail == ActualFg(db, last.nrois, last.fg_fractions)
                     + ActualBg(db, last.nrois, last.fg_fractions)
        IN  /\ avail < last.nrois => last.ret.status = "AssertionError"
            /\ last.ret.status = "returned" =>
                  /\ avail = last.nrois
                  /\ Len(last.ret.idx) = last.nrois
                  /\ Len(last.ret.labels) = last.nrois
                  /\ Len(last.ret.bbox_targets) = last.nrois

\* a call on a record holding both foreground and background anchors, too few to
\* reach nrois, that failed its assertion
C4_Witness ==
    /\ Sampled
    /\ last.ret.status = "AssertionError"
    /\ IndicesLabelled(roi_db[last.k], FOREGROUND) # {}
    /\ IndicesLabelled(roi_db[last.k], BACKGROUND) # {}

\* C5: whenever _sample_anchors returns, the returned labels hold exactly
\* min(floor(fg_fraction * n), |foreground|) ones, exactly
\* min(n - that count, |background|) zeros and no IGNORE entry.
C5_SampleCounts ==
    Returned =>
        LET db == roi_db[last.k]
        IN  /\ CountOf(last.ret.labels, FOREGROUND)
                  = ActualFg(db, last.nrois, last.fg_fractions)
            /\ CountOf(last.ret.labels, BACKGROUND)
                  = ActualBg(db, last.nrois, last.fg_fractions)
            /\ CountOf(last.ret.labels, IGNORE) = 0

\* a returned selection on a record with fewer foreground anchors than
\* floor(fg_fraction * n), where background fills the selection up to n
C5_Witness ==
    /\ Returned
    /\ LET db == roi_db[last.k]
           want == FloorMul(last.fg_fractions, last.nrois)
       IN  /\ want > 0
           /\ Cardinality(IndicesLabelled(db, FOREGROUND)) < want
           /\ CountOf(last.ret.labels, BACKGROUND) > last.nrois - want
           /\ CountOf(last.ret.labels, FOREGROUND) > 0

\* idx[from + 1 .. from + m] are the m smallest indices of S, ascending
SmallestAscending(idx, from, m, S) ==
    \A j \in 1..m :
        /\ idx[from + j] \in S
        /\ Cardinality({i \in S : i < idx[from + j]}) = j - 1

\* the selection a deterministic call returned is the lowest-index foreground
\* anchors followed by the lowest-index background anchors
DeterministicPrefix ==
    (Returned /\ last.deterministic) =>
        LET db == roi_db[last.k]
            nfg == ActualFg(db, last.nrois, last.fg_fractions)
            nbg == ActualBg(db, last.nrois, last.fg_fractions)
        IN  /\ Len(last.ret.idx) = nfg + nbg
            /\ SmallestAscending(last.ret.idx, 0, nfg, IndicesLabelled(db, FOREGROUND))
            /\ SmallestAscending(last.ret.idx, nfg, nbg, IndicesLabelled(db, BACKGROUND))

\* a deterministic call draws nothing from the random source
DeterministicDrawsNothing ==
    (last' # last /\ last'.fn = "_sample_anchors" /\ last'.deterministic) =>
        rng_calls' = rng_calls

\* sampling leaves the records as they are, so the same record gives the same
\* deterministic selection whenever it is asked
SamplingKeepsRecords == (pc = "ready" /\ last' # last) => roi_db' = roi_db

\* C6: with deterministic = true, _sample_anchors selects the actual_fg lowest-index
\* foreground anchors followed by the actual_bg lowest-index background anchors,
\* each ascending, draws nothing from the random source, and so returns the same
\* indices for the same record at any point of any sequence of calls.
C6_DeterministicSelection ==
    /\ []DeterministicPrefix
    /\ [][DeterministicDrawsNothing /\ SamplingKeepsRecords]_vars

\* a deterministic call that returned after random calls had been made, on a record
\* with more foreground and more background anchors than it selected
C6_Witness ==
    /\ Returned
    /\ last.deterministic
    /\ rng_calls > 0
    /\ CountOf(last.ret.labels, FOREGROUND) > 0
    /\ CountOf(last.ret.labels, BACKGROUND) > 0
    /\ Cardinality(IndicesLabelled(roi_db[last.k], FOREGROUND))
          > CountOf(last.ret.labels, FOREGROUND)
    /\ Cardinality(IndicesLabelled(roi_db[last.k], BACKGROUND))
          > CountOf(last.ret.labels, BACKGROUND)

\* C7 as stated: after labelling, max_classes[i] of every in-bounds anchor i is the
\* class id of its best-matching ground-truth box, gt_classes[argmax_g overlaps[i, g]].
C7_MaxClassIsGtClass ==
    Labelled =>
        \A k \in 1..Len(roi_db) :
            LET db == roi_db[k]
                argmax == ArgMax(Overlaps(db))
            IN  \A r \in 1..NumInside(db) :
                    MaxClassOf(db, r) = Q(At(db.gt_classes, argmax[r]), 1)

(***************************************************************************)
(* The utility functions                                                   *)
(***************************************************************************)
Called(fn) == call.fn = fn /\ result.fn = fn

\* C8: inside_im_bounds returns, ascending and without duplicates, exactly the
\* (0-based) indices of the boxes with x_min >= 0, y_min >= 0, x_max < w and
\* y_max < h; a box whose x_max is w or whose y_max is h is left out.
C8_InsideImBounds ==
    Called("inside_im_bounds") =>
        LET ret == result.ret
            w == call.im_shape[1]
            h == call.im_shape[2]
        IN  /\ \A i, j \in 1..Len(ret) : i < j => ret[i] < ret[j]
            /\ {ret[j] : j \in 1..Len(ret)}
                  = {i - 1 : i \in {m \in 1..Len(call.box) :
                                      /\ XMin(call.box[m]) >= 0
                                      /\ YMin(call.box[m]) >= 0
                                      /\ XMax(call.box[m]) < w
                                      /\ YMax(call.box[m]) < h}}

\* a call on two boxes, the first touching the right edge (x_max = w) and left
\* out, the second ending one pixel before it and returned
C8_Witness ==
    /\ Called("inside_im_bounds")
    /\ Len(call.box) = 2
    /\ XMax(call.box[1]) = call.im_shape[1]
    /\ XMax(call.box[2]) = call.im_shape[1] - 1
    /\ result.ret = <<1>>

Listed(inds, i) == \E j \in 1..Len(inds) : inds[j] = i

\* C9 as stated: _unmap(full[inds], count, inds, fill) has length count, equals
\* full at every listed position and fill at every other position.
C9_UnmapRoundTripExact ==
    Called("_unmap") =>
        /\ Len(result.ret) = call.count
        /\ \A i \in 0..(call.count - 1) :
              At(result.ret, i) =
                  IF Listed(call.inds, i) THEN At(call.full, i)
                  ELSE IF call.cols = 0 THEN call.fill
                  ELSE [c \in 1..call.cols |-> call.fill]

\* x as float32 holds it: unchanged when float32 holds it exactly
AsFloat32(x) == IF x.p = "exact" THEN x ELSE [x EXCEPT !.p = "f32"]

\* C9, amended: _unmap(full[inds], count, inds, fill) has length count and is a
\* float32 array: it holds full rounded to float32 at every listed position and
\* fill rounded to float32 at every other position, so it equals full and fill
\* exactly where float32 holds their values exactly.
C9_UnmapRoundTripFloat32 ==
    Called("_unmap") =>
        /\ Len(result.ret) = call.count
        /\ \A i \in 0..(call.count - 1) :
              At(result.ret, i) =
                  IF call.cols = 0
                  THEN AsFloat32(IF Listed(call.inds, i) THEN At(call.full, i)
                                 ELSE call.fill)
                  ELSE [c \in 1..call.cols |->
                          AsFloat32(IF Listed(call.inds, i) THEN At(call.full, i)[c]
                                    ELSE call.fill)]

\* a call with the indices out of order, a listed value float32 does not hold
\* exactly and a position that is not listed
C9_Witness ==
    /\ Called("_unmap")
    /\ call.cols = 0
    /\ call.count = 3
    /\ call.inds = <<2, 0>>
    /\ At(call.full, 2).p = "f64"
    /\ At(result.ret, 2).p = "f32"
    /\ At(result.ret, 1) = call.fill

\* C10: for every raw size with positive sides the larger side of new_shape is at
\* most MAX_SIZE; the scale is MIN_SIZE / min(w, h) unless that puts the rounded
\* larger side above MAX_SIZE, and then it is MAX_SIZE / max(w, h); (2000, 1000)
\* gives scale 1/2 and shape (1000, 500), (800, 600) gives 1 and (800, 600).
C10_ScaleShape ==
    Called("calculate_scale_shape") =>
        LET w == call.size[1]
            h == call.size[2]
            lo == Min2(w, h)
            hi == Max2(w, h)
            scale == result.ret.im_scale
            shape == result.ret.im_shape
            \* round(MIN_SIZE * hi / lo) > MAX_SIZE, MAX_SIZE being even
            over == 2 * MIN_SIZE * hi > (2 * MAX_SIZE + 1) * lo
        IN  /\ Max2(shape[1], shape[2]) <= MAX_SIZE
            /\ ~over => scale[1] * lo = scale[2] * MIN_SIZE
            /\ over => scale[1] * hi = scale[2] * MAX_SIZE
            /\ call.size = <<2000, 1000>> => scale = <<1, 2>> /\ shape = <<1000, 500>>
            /\ call.size = <<800, 600>> => scale = <<1, 1>> /\ shape = <<800, 600>>

\* the call on (2000, 1000), clipped by the max-side constraint
C10_Witness ==
    /\ Called("calculate_scale_shape")
    /\ call.size = <<2000, 1000>>
    /\ result.ret = [im_scale |-> <<1, 2>>, im_shape |-> <<1000, 500>>]

(***************************************************************************)
(* calculate_bb_overlap                                                    *)
(***************************************************************************)
\* the pixel-inclusive width and height of the intersection, and the areas
InterW(a, b, unit) == Min2(XMax(a), XMax(b)) - Max2(XMin(a), XMin(b)) + unit

InterH(a, b, unit) == Min2(YMax(a), YMax(b)) - Max2(YMin(a), YMin(b)) + unit

AreaOf(a, unit) == (XMax(a) - XMin(a) + unit) * (YMax(a) - YMin(a) + unit)

\* C14: calculate_bb_overlap gives exactly 1 for every valid box compared with
\* itself, under the pixel-inclusive (+1) convention.
C14_SelfOverlapIsOne ==
    Called("calculate_bb_overlap") =>
        \A r \in 1..Len(call.rp), g \in 1..Len(call.gt) :
            call.rp[r] = call.gt[g] => result.ret[r][g] = <<1, 1>>

\* a call on a one-pixel box (x_max = x_min, y_max = y_min) and a different box
C14_Witness ==
    /\ Called("calculate_bb_overlap")
    /\ call.rp[1] = <<1, 1, 1, 1>>
    /\ call.rp[2] # call.rp[1]
    /\ result.ret[1][1] = <<1, 1>>
    /\ result.ret[2][2] = <<1, 1>>

\* C15: for every pair of valid boxes the overlap lies in [0, 1], is the same with
\* the two boxes exchanged, is exactly 0 when the pixel-inclusive intersection has
\* width or height <= 0, and otherwise is intersection / (area + area - intersection)
\* with every width and height counted with + 1.
C15_OverlapIsIoU ==
    Called("calculate_bb_overlap") =>
        \A r \in 1..Len(call.rp), g \in 1..Len(call.gt) :
            LET a == call.rp[r]
                b == call.gt[g]
                v == result.ret[r][g]
                iw == InterW(a, b, call.unit)
                ih == InterH(a, b, call.unit)
            IN  /\ 0 <= v[1] /\ v[1] <= v[2]
                /\ v = result.ret[g][r]
                /\ (iw <= 0 \/ ih <= 0) => v = <<0, 1>>
                /\ (iw > 0 /\ ih > 0) =>
                       v[1] * (AreaOf(a, call.unit) + AreaOf(b, call.unit) - iw * ih)
                           = v[2] * iw * ih

\* a call on two boxes of different areas (4 and 2 pixels) that share one pixel
C15_Witness ==
    /\ Called("calculate_bb_overlap")
    /\ call.unit = 1
    /\ call.rp = << <<0, 0, 1, 1>>, <<1, 0, 2, 0>> >>
    /\ result.ret[1][2] = <<1, 5>>
    /\ result.ret[2][1] = <<1, 5>>

(***************************************************************************)
(* Regression targets and the dense layout                                 *)
(***************************************************************************)
TargetOf(db, r) ==
    IF pc = "labeled" THEN db.bbox_targets[r] ELSE At(db.bbox_targets, db.idx_inside[r])

\* the value of an array element without its precision
ValueOf(x) == <<x.k, x.n, x.d>>

\* the quotient n / d and the logarithm of n / d as values
Quot(n, d) == <<"q", Frac(n, d)[1], Frac(n, d)[2]>>

LogQuot(n, d) == IF n = d THEN <<"q", 0, 1>> ELSE <<"ln", Frac(n, d)[1], Frac(n, d)[2]>>

\* the (1-based) lowest-index ground-truth box among those anchor row ov overlaps most
FirstBest(ov) ==
    CHOOSE g \in 1..Len(ov) :
        /\ \A g2 \in 1..Len(ov) : FracLeq(ov[g2], ov[g])
        /\ \A g2 \in 1..(g - 1) : FracLess(ov[g2], ov[g])

\* C17: for every in-bounds anchor, whatever its label, the stored regression target
\* is that of the scaled ground-truth box at the row-wise argmax of the overlaps
\* (lowest index among ties) against the anchor as reference, widths and heights
\* counted with + 1: dx = (cx_gt - cx_a) / w_a, dy = (cy_gt - cy_a) / h_a,
\* dw = ln(w_gt / w_a), dh = ln(h_gt / h_a); an anchor identical to its scaled
\* matched box has target (0, 0, 0, 0).
C17_RegressionTargets ==
    Labelled =>
        \A k \in 1..Len(roi_db) :
            LET db == roi_db[k]
                ov == Overlaps(db)
                sc == calculate_scale_shape(db.img_shape).im_scale
            IN  \A r \in 1..NumInside(db) :
                    LET a == At(generate_all_anchors, db.idx_inside[r])
                        g == db.gt_bb[FirstBest(ov[r])]
                        \* widths and doubled centres, in units of 1 / sc[2] pixel
                        w_a == (XMax(a) - XMin(a) + 1) * sc[2]
                        h_a == (YMax(a) - YMin(a) + 1) * sc[2]
                        w_g == (XMax(g) - XMin(g)) * sc[1] + sc[2]
                        h_g == (YMax(g) - YMin(g)) * sc[1] + sc[2]
                        cx_a == 2 * XMin(a) * sc[2] + w_a
                        cy_a == 2 * YMin(a) * sc[2] + h_a
                        cx_g == 2 * XMin(g) * sc[1] + w_g
                        cy_g == 2 * YMin(g) * sc[1] + h_g
                        t == TargetOf(db, r)
                    IN  /\ ValueOf(t[1]) = Quot(cx_g - cx_a, 2 * w_a)
                        /\ ValueOf(t[2]) = Quot(cy_g - cy_a, 2 * h_a)
                        /\ ValueOf(t[3]) = LogQuot(w_g, w_a)
                        /\ ValueOf(t[4]) = LogQuot(h_g, h_a)
                        /\ (\A j \in 1..4 : a[j] * sc[2] = g[j] * sc[1]) =>
                               t = <<Q(0, 1), Q(0, 1), Q(0, 1), Q(0, 1)>>

\* a labelled image with two ground-truth boxes: one anchor is identical to its
\* scaled matched box and has target zero, one background anchor overlaps no box
\* (its tie goes to box 0) and has a non-zero target, and one anchor is matched to
\* box 1
C17_Witness ==
    /\ pc = "ready"
    /\ Len(roi_db[1].gt_bb) = 2
    /\ LET db == roi_db[1]
           ov == Overlaps(db)
       IN  /\ \E r \in 1..NumInside(db) :
                 /\ TargetOf(db, r) = <<Q(0, 1), Q(0, 1), Q(0, 1), Q(0, 1)>>
                 /\ ov[r][FirstBest(ov[r])] = <<1, 1>>
           /\ \E r \in 1..NumInside(db) :
                 /\ LabelOf(db, r) = BACKGROUND
                 /\ ov[r] = << <<0, 1>>, <<0, 1>> >>
                 /\ TargetOf(db, r)[1] # Q(0, 1)
           /\ \E r \in 1..NumInside(db) : FirstBest(ov[r]) = 2

\* anchor i (0-based) of the dense grid lies fully inside the resized image of db
InsideImage(db, i) ==
    LET a == At(generate_all_anchors, i)
    IN  /\ XMin(a) >= 0
        /\ YMin(a) >= 0
        /\ XMax(a) < db.im_width
        /\ YMax(a) < db.im_height

\* C18: after construction each record's labels array has length total_anchors and
\* every anchor of the dense grid that is not fully inside the resized image carries
\* IGNORE with an all-zero regression target; every index _sample_anchors returns
\* is an in-bounds anchor, and the returned indices are pairwise distinct.
C18_DenseLabels ==
    pc = "ready" =>
        /\ \A k \in 1..Len(roi_db) :
              LET db == roi_db[k]
              IN  /\ Len(db.labels) = total_anchors
                  /\ Len(db.bbox_targets) = total_anchors
                  /\ \A i \in 0..(total_anchors - 1) :
                        ~InsideImage(db, i) =>
                            /\ At(db.labels, i) = IGNORE
                            /\ At(db.bbox_targets, i) = <<Q(0, 1), Q(0, 1), Q(0, 1), Q(0, 1)>>
        /\ Returned =>
              LET db == roi_db[last.k]
                  idx == last.ret.idx
              IN  /\ \A j \in 1..Len(idx) : InsideImage(db, idx[j])
                  /\ \A j \in 1..Len(idx) : Listed(db.idx_inside, idx[j])
                  /\ \A i, j \in 1..Len(idx) : i # j => idx[i] # idx[j]

\* a random call that returned three indices, not ascending, on a record some of
\* whose anchors lie outside the image
C18_Witness ==
    /\ Returned
    /\ ~last.deterministic
    /\ Len(last.ret.idx) = 3
    /\ last.ret.idx[3] < last.ret.idx[2]
    /\ \E i \in 0..(total_anchors - 1) : ~InsideImage(roi_db[last.k], i)

(***************************************************************************)
(* _shuffle_roidb                                                          *)
(***************************************************************************)
Shuffled == Called("_shuffle_roidb") /\ result.ret.status = "returned"

\* image k (0-based) of the call is horizontal: width >= height
Horizontal(k) == At(call.roi_db, k).im_width >= At(call.roi_db, k).im_height

NumHorizontal == Cardinality({k \in 0..(Len(call.roi_db) - 1) : Horizontal(k)})

\* the pairs (0-based k) of the ordering whose two images differ in aspect class
MixedPairs(inds) ==
    {k \in 0..((Len(inds) \div 2) - 1) :
        Horizontal(inds[2 * k + 1]) # Horizontal(inds[2 * k + 2])}

\* C11 as stated: for every number N of image records and every outcome of the
\* random source, _shuffle_roidb does not fail and its ordering holds every index
\* 0..N-1 exactly once.
C11_ShuffleIsPermutation ==
    Called("_shuffle_roidb") =>
        /\ result.ret.status = "returned"
        /\ Len(result.ret.inds) = Len(call.roi_db)
        /\ \A k \in 0..(Len(call.roi_db) - 1) :
              Cardinality({j \in 1..Len(result.ret.inds) : result.ret.inds[j] = k}) = 1

Yielded == gen.state = "suspended"

\* C13: with shuffle = false every epoch, also one begun after reset or after an
\* epoch consumed in part or in full, visits the records in identity order: the
\* k-th batch yielded is built from image record k, for every k < nbatches.
C13_IdentityOrder ==
    (Yielded /\ ~config.shuffle) =>
        /\ gen.pos <= config.nbatches
        /\ gen.shuf_idx = [j \in 1..config.num_image_entries |-> j - 1]
        /\ last.k = gen.pos
        /\ Y.dev_y_bbtargets = TransposeFlat(roi_db[gen.pos].bbox_targets, 4)

\* the second batch of an epoch begun after an earlier epoch had yielded one batch
\* only (three random samplings made in all), built from record 1
C13_Witness ==
    /\ Yielded
    /\ ~config.shuffle
    /\ ~config.deterministic
    /\ rng_calls = 6
    /\ gen.pos = 2
    /\ last.k = 2
    /\ roi_db[1] # roi_db[2]

\* C16: once labelled and unmapped a record is read-only: no call of __iter__, of
\* next on its generator (with the call of _sample_anchors it makes, random or
\* deterministic) or of reset changes any field of any record.
C16_RecordsReadOnly == [][pc = "ready" => roi_db' = roi_db]_vars

\* a second batch has been yielded, its labels differ from the record's, and the
\* record still holds an IGNORE label
C16_Witness ==
    /\ Yielded
    /\ gen.pos = 2
    /\ Y.dev_y_labels_flat # roi_db[last.k].labels
    /\ \E i \in 1..total_anchors : roi_db[last.k].labels[i] = IGNORE

\* C19: in every batch yielded, after any earlier batches, the label mask is 1
\* exactly at the anchors sampled for this batch (in both of its halves), the label
\* is 0 at every unsampled anchor and the record's label at a sampled one, and the
\* bbox-target mask is 1 (in all four coordinates) exactly at the sampled anchors
\* labelled foreground.
C19_BatchMasks ==
    Yielded =>
        LET db == roi_db[last.k]
            idx == last.ret.idx
        IN  /\ Len(Y.dev_y_labels_flat) = total_anchors
            /\ Len(Y.dev_y_labels_mask) = 2 * total_anchors
            /\ Len(Y.dev_y_bbtargets_mask) = 4 * total_anchors
            /\ \A i \in 0..(total_anchors - 1) :
                  LET sampled == Listed(idx, i)
                  IN  /\ At(Y.dev_y_labels_mask, i) = IF sampled THEN 1 ELSE 0
                      /\ At(Y.dev_y_labels_mask, total_anchors + i)
                            = IF sampled THEN 1 ELSE 0
                      /\ At(Y.dev_y_labels_flat, i)
                            = IF sampled THEN At(db.labels, i) ELSE Q(0, 1)
                      /\ \A c \in 0..3 :
                            At(Y.dev_y_bbtargets_mask, c * total_anchors + i)
                              = IF sampled /\ At(db.labels, i) = FOREGROUND
                                THEN 1 ELSE 0

\* the second batch of an epoch: the foreground anchor the first batch sampled is
\* not sampled now and carries label 0 and mask 0
C19_Witness ==
    /\ Yielded
    /\ gen.pos = 2
    /\ \E i \in 0..(total_anchors - 1) :
          /\ At(roi_db[gen.shuf_idx[1] + 1].labels, i) = FOREGROUND
          /\ ~Listed(last.ret.idx, i)
          /\ At(Y.dev_y_labels_mask, i) = 0
          /\ At(Y.dev_y_bbtargets_mask, i) = 0
          /\ At(Y.dev_y_labels_flat, i) = Q(0, 1)

\* C20 as stated: for every configuration the constructor accepts, an epoch yields
\* exactly nbatches batches (neither the ordering nor the lookup of a record
\* fails), each from a record at an index within 0..num_image_entries-1, and no
\* record twice.
C20_EpochYieldsNbatches ==
    /\ gen.state = "raised" => gen.err = "AssertionError"
    /\ gen.state = "finished" => gen.pos = config.nbatches
    /\ gen.state \in {"suspended", "finished"} =>
          /\ \A j \in 1..gen.pos : gen.shuf_idx[j] \in 0..(config.num_image_entries - 1)
          /\ \A i, j \in 1..gen.pos : i # j => gen.shuf_idx[i] # gen.shuf_idx[j]

====
